---- MODULE Spec2Model ----
(***************************************************************************)
(* Model of examples/metabase-object-detection-async-http-postgres/main.py *)
(* from the batching of the extracted frames (line 218) to the assembly of *)
(* the output video (line 278): the submission loop, the count assertion,  *)
(* the fetch-and-draw loop over the results store and the hand-over of the *)
(* output directory to the encoder.                                        *)
(*                                                                         *)
(* Frame files are named by their frame number (ffmpeg writes              *)
(* 'frame%5d.png' from start_number=0, so name order is number order); a   *)
(* directory entry whose name starts with "." sorts before every frame and *)
(* is DotEntry.  Positions are the 1-based indices of img_files.           *)
(***************************************************************************)
EXTENDS Integers, Sequences, FiniteSets, TLC

\* ---- bounds of the model ----
MaxFrames == 3      \* at most this many frame files in image_dir
MaxBatch == 2       \* largest batch size explored by SpecAnyBatch
MaxExtra == 1       \* a response is at most this much longer/shorter than its batch

\* ---- program constants ----
DotEntry == -1      \* a directory entry whose name starts with "."
None == 0           \* conn = None
HTTP_OK == 200
HTTP_ERROR == 500
EXIT_FAILURE == 1

VARIABLES
    image_dir,              \* set of entries of the inputs directory
    draw,                   \* opt.draw
    batch_size,
    img_files,
    img_batch,
    filenames,
    data_mapping_indices,
    batch_i,                \* index in img_batch of the next batch of the submission loop
    zip_i,                  \* index of the next pair of tzip(filenames, data_mapping_indices)
    conn,                   \* None or the id of the connection bound to conn
    open_conns,             \* connections opened and not closed
    open_curs,              \* cursors opened and not closed (named by their connection)
    n_conns,                \* number of connections opened so far
    output_dir,             \* set of files written to the outputs directory
    output_seq,             \* the frame sequence the encoder reads from output_dir
    assembled,              \* generate_video_from_frames has been called
    pc,
    exit_status,
    next_index,             \* next mapping index the detection service issues
    calls,                  \* log of the submission calls: files, status, indices returned
    attempts                \* log of the correlation attempts: pos, filename, mapping_index, outcome

vars == <<image_dir, draw, batch_size, img_files, img_batch, filenames,
          data_mapping_indices, batch_i, zip_i, conn, open_conns, open_curs,
          n_conns, output_dir, output_seq, assembled, pc, exit_status,
          next_index, calls, attempts>>

\* ---- pure helpers ----
Min(a, b) == IF a < b THEN a ELSE b

RECURSIVE sortedDesc(_)
sortedDesc(S) ==
    IF S = {} THEN <<>>
    ELSE LET m == CHOOSE x \in S : \A y \in S : x >= y
         IN  <<m>> \o sortedDesc(S \ {m})

\* sorted(listdir(image_dir)): the entries in ascending name order
RECURSIVE sortedAsc(_)
sortedAsc(S) ==
    IF S = {} THEN <<>>
    ELSE LET m == CHOOSE x \in S : \A y \in S : x <= y
         IN  <<m>> \o sortedAsc(S \ {m})

sorted(S) == sortedAsc(S)

\* isfile(join(image_dir, filename)) and not filename.startswith(".")
IsFrameFile(f) == f # DotEntry

ImgFiles(dir) == SelectSeq(sorted(dir), IsFrameFile)

\* range(start, stop, step)
RECURSIVE range(_, _, _)
range(start, stop, step) ==
    IF start >= stop THEN <<>>
    ELSE <<start>> \o range(start + step, stop, step)

\* s[lo:hi] with 0-based bounds, hi clipped to len(s)
Slice(s, lo, hi) == SubSeq(s, lo + 1, Min(hi, Len(s)))

\* range(0, len(files) - len(files) % size, size): the partial last batch is lost
BatchStartsDropLast(files, size) ==
    range(0, Len(files) - (Len(files) % size), size)

BatchStarts(files, size) == range(0, Len(files), size)

\* [img_files[i:i+batch_size] for i in range(0, len(img_files), batch_size)]
Batches(files, size) ==
    LET starts == BatchStarts(files, size)
    IN  [k \in 1..Len(starts) |-> Slice(files, starts[k], starts[k] + size)]

\* [file for files in img_batch for file in files]
RECURSIVE Flatten(_)
Flatten(batches) ==
    IF batches = <<>> THEN <<>>
    ELSE Head(batches) \o Flatten(Tail(batches))

\* the mapping indices the service issues for one response of length n
FreshIndices(n) == [j \in 1..n |-> next_index + j - 1]

\* the lengths of the list a 200 response may carry for a batch of s files
ResponseLengths(s) == {n \in (s - MaxExtra)..(s + MaxExtra) : n >= 0}

\* ---- initial states ----
\* image_dir holds frames 0..n-1 and possibly a dot file
ImageDirs ==
    {(0..(n - 1)) \cup h : n \in 0..MaxFrames, h \in {{}, {DotEntry}}}

InitCommon ==
    /\ image_dir \in ImageDirs
    /\ draw \in BOOLEAN
    /\ img_files = <<>>
    /\ img_batch = <<>>
    /\ filenames = <<>>
    /\ data_mapping_indices = <<>>
    /\ batch_i = 1
    /\ zip_i = 1
    /\ conn = None
    /\ open_conns = {}
    /\ open_curs = {}
    /\ n_conns = 0
    /\ output_dir = {}
    /\ output_seq = <<>>
    /\ assembled = FALSE
    /\ pc = "prepare"
    /\ exit_status = 0
    /\ next_index = 1
    /\ calls = <<>>
    /\ attempts = <<>>

\* batch_size = 1 as the program sets it
Init == InitCommon /\ batch_size = 1

\* the batching expression for every batch size up to MaxBatch
InitAnyBatch == InitCommon /\ batch_size \in 1..MaxBatch

\* ---- actions ----
\* lines 218-223
Prepare ==
    /\ pc = "prepare"
    /\ img_files' = ImgFiles(image_dir)
    /\ img_batch' = Batches(img_files', batch_size)
    /\ filenames' = Flatten(img_batch')
    /\ data_mapping_indices' = <<>>
    /\ batch_i' = 1
    /\ pc' = "submit"
    /\ UNCHANGED <<image_dir, draw, batch_size, zip_i, conn, open_conns,
                   open_curs, n_conns, output_dir, output_seq, assembled,
                   exit_status, next_index, calls, attempts>>

\* the else branch replaced by `continue`: the failed batch is skipped
SubmitFailContinue ==
    /\ pc = "submit"
    /\ batch_i <= Len(img_batch)
    /\ calls' = Append(calls, [files |-> img_batch[batch_i],
                               status |-> HTTP_ERROR, indices |-> <<>>])
    /\ batch_i' = batch_i + 1
    /\ UNCHANGED <<image_dir, draw, batch_size, img_files, img_batch,
                   filenames, data_mapping_indices, zip_i, conn, open_conns,
                   open_curs, n_conns, output_dir, output_seq, assembled,
                   pc, exit_status, next_index, attempts>>

\* lines 228-232: one iteration of the submission loop, status 200
SubmitOk ==
    /\ pc = "submit"
    /\ batch_i <= Len(img_batch)
    /\ \E n \in ResponseLengths(Len(img_batch[batch_i])) :
         LET indices == FreshIndices(n)
         IN  /\ calls' = Append(calls, [files |-> img_batch[batch_i],
                                        status |-> HTTP_OK,
                                        indices |-> indices])
             /\ data_mapping_indices' = data_mapping_indices \o indices
             /\ next_index' = next_index + n
    /\ batch_i' = batch_i + 1
    /\ UNCHANGED <<image_dir, draw, batch_size, img_files, img_batch,
                   filenames, zip_i, conn, open_conns, open_curs, n_conns,
                   output_dir, output_seq, assembled, pc, exit_status,
                   attempts>>

\* lines 228-234: one iteration of the submission loop, status not 200
SubmitFail ==
    /\ pc = "submit"
    /\ batch_i <= Len(img_batch)
    /\ calls' = Append(calls, [files |-> img_batch[batch_i],
                               status |-> HTTP_ERROR, indices |-> <<>>])
    /\ exit_status' = EXIT_FAILURE
    /\ pc' = "done"
    /\ UNCHANGED <<image_dir, draw, batch_size, img_files, img_batch,
                   filenames, data_mapping_indices, batch_i, zip_i, conn,
                   open_conns, open_curs, n_conns, output_dir, output_seq,
                   assembled, next_index, attempts>>

\* line 240, opt.draw false: the script ends
SkipDraw ==
    /\ pc = "submit"
    /\ batch_i > Len(img_batch)
    /\ ~draw
    /\ pc' = "done"
    /\ UNCHANGED <<image_dir, draw, batch_size, img_files, img_batch,
                   filenames, data_mapping_indices, batch_i, zip_i, conn,
                   open_conns, open_curs, n_conns, output_dir, output_seq,
                   assembled, exit_status, next_index, calls, attempts>>

\* lines 240-246: the assertion fails, the script dies of AssertionError
AssertFail ==
    /\ pc = "submit"
    /\ batch_i > Len(img_batch)
    /\ draw
    /\ Len(filenames) # Len(data_mapping_indices)
    /\ conn' = None
    /\ exit_status' = EXIT_FAILURE
    /\ pc' = "done"
    /\ UNCHANGED <<image_dir, draw, batch_size, img_files, img_batch,
                   filenames, data_mapping_indices, batch_i, zip_i,
                   open_conns, open_curs, n_conns, output_dir, output_seq,
                   assembled, next_index, calls, attempts>>

\* lines 240-250: the assertion holds, the fetch-and-draw loop starts
AssertPass ==
    /\ pc = "submit"
    /\ batch_i > Len(img_batch)
    /\ draw
    /\ Len(filenames) = Len(data_mapping_indices)
    /\ conn' = None
    /\ zip_i' = 1
    /\ pc' = "correlate"
    /\ UNCHANGED <<image_dir, draw, batch_size, img_files, img_batch,
                   filenames, data_mapping_indices, batch_i, open_conns,
                   open_curs, n_conns, output_dir, output_seq, assembled,
                   exit_status, next_index, calls, attempts>>

\* the pair the loop is at
Attempt(outcome) ==
    [pos |-> zip_i, filename |-> filenames[zip_i],
     mapping_index |-> data_mapping_indices[zip_i], outcome |-> outcome]

InLoop ==
    /\ pc = "correlate"
    /\ zip_i <= Min(Len(filenames), Len(data_mapping_indices))

\* lines 254-256, 271-272: psycopg2.connect raises; conn keeps its old binding
CorrelateUnreachable ==
    /\ InLoop
    /\ attempts' = Append(attempts, Attempt("unreachable"))
    /\ zip_i' = zip_i + 1
    /\ UNCHANGED <<image_dir, draw, batch_size, img_files, img_batch,
                   filenames, data_mapping_indices, batch_i, conn,
                   open_conns, open_curs, n_conns, output_dir, output_seq,
                   assembled, pc, exit_status, next_index, calls>>

\* connect and cursor succeed: a new connection is bound to conn, the old one
\* is not closed; the cursor is closed only by line 269
Connected(cursor_closed) ==
    /\ n_conns' = n_conns + 1
    /\ conn' = n_conns + 1
    /\ open_conns' = open_conns \cup {n_conns + 1}
    /\ open_curs' = IF cursor_closed THEN open_curs
                    ELSE open_curs \cup {n_conns + 1}

\* the missing result is waited for: the same pair is queried again
CorrelateNoRowRetry ==
    /\ InLoop
    /\ Len(attempts) < Len(filenames) + 2
    /\ Connected(FALSE)
    /\ attempts' = Append(attempts, Attempt("norow"))
    /\ UNCHANGED <<image_dir, draw, batch_size, img_files, img_batch,
                   filenames, data_mapping_indices, batch_i, zip_i,
                   output_dir, output_seq, assembled, pc, exit_status,
                   next_index, calls>>

\* lines 254-261, 271-272: no row for the index, fetchone()[0] raises
CorrelateNoRow ==
    /\ InLoop
    /\ Connected(FALSE)
    /\ attempts' = Append(attempts, Attempt("norow"))
    /\ zip_i' = zip_i + 1
    /\ UNCHANGED <<image_dir, draw, batch_size, img_files, img_batch,
                   filenames, data_mapping_indices, batch_i, output_dir,
                   output_seq, assembled, pc, exit_status, next_index, calls>>

\* the except clause re-raises: the script dies of the parse error
CorrelateMalformedAbort ==
    /\ InLoop
    /\ Connected(FALSE)
    /\ attempts' = Append(attempts, Attempt("malformed"))
    /\ exit_status' = EXIT_FAILURE
    /\ pc' = "done"
    /\ UNCHANGED <<image_dir, draw, batch_size, img_files, img_batch,
                   filenames, data_mapping_indices, batch_i, zip_i,
                   output_dir, output_seq, assembled, next_index, calls>>

\* lines 254-263, 271-272: the row is malformed, parse_detection_from_database raises
CorrelateMalformed ==
    /\ InLoop
    /\ Connected(FALSE)
    /\ attempts' = Append(attempts, Attempt("malformed"))
    /\ zip_i' = zip_i + 1
    /\ UNCHANGED <<image_dir, draw, batch_size, img_files, img_batch,
                   filenames, data_mapping_indices, batch_i, output_dir,
                   output_seq, assembled, pc, exit_status, next_index, calls>>

\* lines 254-269: the row is fetched, parsed and drawn, the frame is written
CorrelateDrawn ==
    /\ InLoop
    /\ Connected(TRUE)
    /\ output_dir' = output_dir \cup {filenames[zip_i]}
    /\ attempts' = Append(attempts, Attempt("drawn"))
    /\ zip_i' = zip_i + 1
    /\ UNCHANGED <<image_dir, draw, batch_size, img_files, img_batch,
                   filenames, data_mapping_indices, batch_i, output_seq,
                   assembled, pc, exit_status, next_index, calls>>

\* the files are read in directory order, here the reverse of name order
GlobDirOrder(dir) == sortedDesc(dir)

\* ffmpeg's glob input: the '*.png' files of the directory in name order
Glob(dir) == sortedAsc(dir)

\* lines 274-278: the last connection is closed, the output directory is
\* handed to the encoder, whose result is ignored
Finish ==
    /\ pc = "correlate"
    /\ zip_i > Min(Len(filenames), Len(data_mapping_indices))
    /\ open_conns' = IF conn # None THEN open_conns \ {conn} ELSE open_conns
    /\ output_seq' = Glob(output_dir)
    /\ assembled' = TRUE
    /\ pc' = "done"
    /\ UNCHANGED <<image_dir, draw, batch_size, img_files, img_batch,
                   filenames, data_mapping_indices, batch_i, zip_i, conn,
                   open_curs, n_conns, output_dir, exit_status, next_index,
                   calls, attempts>>

Next ==
    \/ Prepare
    \/ SubmitOk
    \/ SubmitFail
    \/ SkipDraw
    \/ AssertFail
    \/ AssertPass
    \/ CorrelateUnreachable
    \/ CorrelateNoRow
    \/ CorrelateMalformed
    \/ CorrelateDrawn
    \/ Finish

Spec == Init /\ [][Next]_vars

SpecAnyBatch == InitAnyBatch /\ [][Next]_vars

\* the script is one sequential process: a step that can be taken is taken
FairSpec == Init /\ [][Next]_vars /\ WF_vars(Next)

\* ---- vocabulary of the properties ----
\* the frames of image_dir in their original order; position p is FrameSeq[p]
FrameSeq == SelectSeq(sortedAsc(image_dir), IsFrameFile)

NFrames == Len(FrameSeq)

PosOf(f) == CHOOSE p \in 1..NFrames : FrameSeq[p] = f

CeilDiv(n, b) == (n + b - 1) \div b

\* the submission loop has ended without a failed call
SubmissionOver ==
    /\ pc # "prepare"
    /\ pc = "submit" => batch_i > Len(img_batch)

WellFormedCalls ==
    \A k \in 1..Len(calls) :
        /\ calls[k].status = HTTP_OK
        /\ Len(calls[k].indices) = Len(calls[k].files)

MismatchedCalls ==
    {k \in 1..Len(calls) :
        /\ calls[k].status = HTTP_OK
        /\ Len(calls[k].indices) # Len(calls[k].files)}

FailedCalls == {k \in 1..Len(calls) : calls[k].status # HTTP_OK}

AttemptsWith(outcomes) ==
    {i \in 1..Len(attempts) : attempts[i].outcome \in outcomes}

\* the batch and the place in it of position p
BatchOf(p) == ((p - 1) \div batch_size) + 1

OffsetOf(p) == ((p - 1) % batch_size) + 1

\* ---- C1 ----
\* C1: when every submission succeeds with one index per submitted frame,
\* the loop has issued ceil(N/B) calls, frame i was submitted in batch
\* (i-1) div B + 1 at place (i-1) mod B + 1, and data_mapping_indices has N
\* entries, entry i being the index returned at that place of that call.
C1_BatchingPreservesOrder ==
    (SubmissionOver /\ WellFormedCalls) =>
        /\ Len(calls) = CeilDiv(NFrames, batch_size)
        /\ Flatten([k \in 1..Len(calls) |-> calls[k].files]) = FrameSeq
        /\ Len(data_mapping_indices) = NFrames
        /\ \A i \in 1..NFrames :
              /\ Len(calls[BatchOf(i)].files) <= batch_size
              /\ calls[BatchOf(i)].files[OffsetOf(i)] = FrameSeq[i]
              /\ data_mapping_indices[i] = calls[BatchOf(i)].indices[OffsetOf(i)]

C1_Witness ==
    /\ pc = "done"
    /\ WellFormedCalls
    /\ NFrames = 3
    /\ batch_size = 2
    /\ Len(calls) = 2
    /\ DotEntry \in image_dir

\* ---- C2 ----
\* C2: a call answered with a non-success status is the last call of the run;
\* the run is over with a non-zero exit status, the batch was submitted only
\* once, and no connection, correlation attempt, output frame or assembly exists.
C2_SubmissionFailureAborts ==
    \A k \in FailedCalls :
        /\ k = Len(calls)
        /\ \A j \in 1..Len(calls) : j # k => calls[j].files # calls[k].files
        /\ pc = "done"
        /\ exit_status # 0
        /\ attempts = <<>>
        /\ n_conns = 0
        /\ output_dir = {}
        /\ ~assembled

C2_Witness ==
    /\ draw
    /\ \E k \in FailedCalls : k >= 2 /\ k < Len(img_batch)

\* ---- C3 ----
\* C3: once a 200 response carried a list whose length differs from the
\* number of files of its batch, no connection or correlation attempt is made
\* and no video is assembled, and the run ends with a non-zero exit status.
C3_PerBatchCountChecked ==
    (MismatchedCalls # {}) =>
        /\ attempts = <<>>
        /\ n_conns = 0
        /\ ~assembled
        /\ pc = "done" => exit_status # 0

\* ---- C4 ----
\* C4: the sequence handed to the encoder has one entry per original
\* position, the entry at position p being frame p.
C4_NoFrameOmitted ==
    assembled =>
        /\ Len(output_seq) = NFrames
        /\ \A p \in 1..NFrames : output_seq[p] = FrameSeq[p]

\* ---- C5 ----
\* C5: the frames handed to the encoder are strictly increasing in original
\* position.
C5_OutputInPositionOrder ==
    assembled =>
        \A i, j \in 1..Len(output_seq) :
            i < j => PosOf(output_seq[i]) < PosOf(output_seq[j])

C5_Witness ==
    /\ assembled
    /\ Len(output_seq) >= 2
    /\ AttemptsWith({"norow", "malformed", "unreachable"}) # {}

\* ---- C6 ----
\* C6: a failed connection attempt is the last correlation attempt of the
\* run, which is over with a non-zero exit status and without assembly.
C6_StoreUnreachableFatal ==
    \A i \in AttemptsWith({"unreachable"}) :
        /\ i = Len(attempts)
        /\ pc = "done"
        /\ exit_status # 0
        /\ ~assembled

\* ---- C7 ----
\* C7: after a missing or malformed result the run goes on with exit status
\* 0: the positions are attempted once each in order, all of them by the time
\* the run is over, which is after assembly; and a frame is in the output
\* directory exactly when its own attempt drew it.
C7_PerFrameFailureNonFatal ==
    (AttemptsWith({"norow", "malformed"}) # {}) =>
        /\ exit_status = 0
        /\ \A i \in 1..Len(attempts) : attempts[i].pos = i
        /\ \/ pc = "correlate" /\ zip_i = Len(attempts) + 1
           \/ pc = "done" /\ assembled /\ Len(attempts) = NFrames
        /\ \A p \in 1..NFrames :
              FrameSeq[p] \in output_dir <=>
                  /\ p <= Len(attempts)
                  /\ attempts[p].filename = FrameSeq[p]
                  /\ attempts[p].outcome = "drawn"

C7_Witness ==
    /\ pc = "done"
    /\ assembled
    /\ exit_status = 0
    /\ \E i \in AttemptsWith({"malformed"}) :
          \E j \in AttemptsWith({"drawn"}) : i < j
    /\ \E i \in AttemptsWith({"norow"}) :
          \E j \in AttemptsWith({"drawn"}) : j < i

\* ---- C8 ----
\* C8: at most one connection is open at any time, and when the run is over
\* no connection and no cursor is open.
C8_ConnectionsReleased ==
    /\ Cardinality(open_conns) <= 1
    /\ pc = "done" => (open_conns = {} /\ open_curs = {})

\* ---- C9 ----
\* C9: no position is queried more than once, a result that is absent stays a
\* per-frame failure (the loop has moved on and the frame is not written),
\* and the run eventually terminates.
C9_EachPositionOnce ==
    /\ Len(attempts) <= NFrames
    /\ \A i, j \in 1..Len(attempts) :
          i # j => attempts[i].pos # attempts[j].pos
    /\ \A i \in AttemptsWith({"norow"}) :
          /\ attempts[i].filename \notin output_dir
          /\ zip_i > attempts[i].pos

C9_BoundedWait == []C9_EachPositionOnce /\ <>(pc = "done")

C9_Witness ==
    /\ pc = "done"
    /\ NFrames >= 2
    /\ assembled
    /\ AttemptsWith({"norow"}) # {}
    /\ AttemptsWith({"drawn"}) = {}

\* ---- C10 ----
\* C10: a frame is drawn with the detections fetched by the mapping index
\* that the call submitting that frame returned at the frame's place.
C10_FrameIndexPairing ==
    \A i \in AttemptsWith({"drawn"}) :
        LET p == attempts[i].pos
        IN  /\ attempts[i].filename = FrameSeq[p]
            /\ BatchOf(p) <= Len(calls)
            /\ calls[BatchOf(p)].files[OffsetOf(p)] = FrameSeq[p]
            /\ OffsetOf(p) <= Len(calls[BatchOf(p)].indices)
            /\ attempts[i].mapping_index = calls[BatchOf(p)].indices[OffsetOf(p)]

====
